---- MODULE Spec2Model ----
(***************************************************************************)
(* Model of internal/ceres/residual_block_utils.cc: poisoning of the       *)
(* output buffers of a residual block evaluation (InvalidateEvaluation),   *)
(* the validity check (IsEvaluationValid), the full dump                   *)
(* (EvaluationToString) and the error report                               *)
(* (EvaluationErrorReportString).                                          *)
(*                                                                         *)
(* A double is one of the tokens of Values.  A pointer to doubles is a     *)
(* record [null, data]; the array of Jacobian pointers is a record         *)
(* [null, blocks].  C offsets are 0-based, sequences 1-based.              *)
(***************************************************************************)
EXTENDS Integers, Sequences, FiniteSets, TLC

\* ------------------------------------------------------------- bounds
MaxResiduals == 2
MaxParameterBlocks == 2
MaxParameterBlockSize == 2
\* cells of all the Jacobian blocks of a residual block together
MaxJacobianCells == 4
\* cells a user cost function leaves unwritten or writes a non-finite value to
MaxBad == 2
\* the same, for the residual blocks around the printing threshold
MaxBadLarge == 1

\* ---------------------------------------------------------- constants
\* residual_block_utils.cc:181, "num_residuals < 50"
kMaxPrintedResiduals == 50
\* array_utils: the sentinel, a finite double
kImpossibleValue == "1e302"

NonFinite == {"NaN", "Inf", "-Inf"}
Values == {"1.0", kImpossibleValue} \cup NonFinite

NullPtr == [null |-> TRUE, data |-> <<>>]
Ptr(data) == [null |-> FALSE, data |-> data]

\* ------------------------------------------------- the residual block
NumParameterBlocks(block) == Len(block.sizes)
NumResiduals(block) == block.num_residuals
\* block.parameter_blocks()[i]->Size(), i 0-based
Size(block, i) == block.sizes[i + 1]

\* ------------------------------------------------------- array_utils
IsFinite(x) == x \notin NonFinite

IsUserSuppliedValueValid(x) == IsFinite(x) /\ x # kImpossibleValue

\* a null buffer is valid only at length 0
IsArrayValid(size, x) ==
    IF x.null
    THEN size = 0
    ELSE \A i \in 1..size : IsUserSuppliedValueValid(x.data[i])

\* a null buffer is skipped
InvalidateArray(size, x) ==
    IF x.null
    THEN x
    ELSE [x EXCEPT !.data =
            [i \in 1..Len(x.data) |->
                IF i <= size THEN kImpossibleValue ELSE x.data[i]]]

\* "%12g"
FormatG(x) ==
    CASE x = "1.0" -> "1"
      [] x = "NaN" -> "nan"
      [] x = "Inf" -> "inf"
      [] x = "-Inf" -> "-inf"
      [] OTHER -> "1e+302"

\* AppendArrayToString(size, x + off, &result): the texts appended
AppendArrayToString(size, x, off) ==
    [i \in 1..size |->
        IF x.null
        THEN "Not Computed"
        ELSE IF x.data[off + i] = kImpossibleValue
             THEN "Uninitialized"
             ELSE FormatG(x.data[off + i])]

\* ------------------------------------------- InvalidateEvaluation
InvalidateEvaluationCostOnly(block, cost, residuals, jacobians) ==
    [cost |-> InvalidateArray(1, cost),
     residuals |-> residuals,
     jacobians |-> jacobians]

InvalidateEvaluationSkipsLast(block, cost, residuals, jacobians) ==
    [cost |-> InvalidateArray(1, cost),
     residuals |-> InvalidateArray(NumResiduals(block), residuals),
     jacobians |->
        IF ~jacobians.null
        THEN [jacobians EXCEPT !.blocks =
                [i \in 1..NumParameterBlocks(block) |->
                    IF i < NumParameterBlocks(block)
                    THEN InvalidateArray(
                            NumResiduals(block) * Size(block, i - 1),
                            jacobians.blocks[i])
                    ELSE jacobians.blocks[i]]]
        ELSE jacobians]

InvalidateEvaluation(block, cost, residuals, jacobians) ==
    [cost |-> InvalidateArray(1, cost),
     residuals |-> InvalidateArray(NumResiduals(block), residuals),
     jacobians |->
        IF ~jacobians.null
        THEN [jacobians EXCEPT !.blocks =
                [i \in 1..NumParameterBlocks(block) |->
                    InvalidateArray(
                        NumResiduals(block) * Size(block, i - 1),
                        jacobians.blocks[i])]]
        ELSE jacobians]

\* ---------------------------------------------- EvaluationToString
JacobianOffsetColumnMajor(k, j, parameter_block_size, num_residuals) ==
    j * num_residuals + k

\* jacobians[i] + k * parameter_block_size + j
JacobianOffset(k, j, parameter_block_size, num_residuals) ==
    k * parameter_block_size + j

EvaluationToString(block, parameters, cost, residuals, jacobians) ==
    LET num_parameter_blocks == NumParameterBlocks(block)
        num_residuals == NumResiduals(block)
        JacobianPtr(i) ==
            IF ~jacobians.null /\ ~jacobians.blocks[i + 1].null
            THEN jacobians.blocks[i + 1]
            ELSE NullPtr
        Row(i, j) ==
            [parameter |-> AppendArrayToString(1, parameters[i + 1], j)[1],
             cells |->
                [k1 \in 1..num_residuals |->
                    AppendArrayToString(
                        1, JacobianPtr(i),
                        JacobianOffset(k1 - 1, j, Size(block, i),
                                       num_residuals))[1]]]
    IN  [header |-> <<num_parameter_blocks, num_residuals>>,
         residuals |-> AppendArrayToString(num_residuals, residuals, 0),
         blocks |->
            [i1 \in 1..num_parameter_blocks |->
                [index |-> i1 - 1,
                 size |-> Size(block, i1 - 1),
                 rows |-> [j1 \in 1..Size(block, i1 - 1) |->
                              Row(i1 - 1, j1 - 1)]]]]

\* ------------------------------------ UserSuppliedNumberCommentary
UserSuppliedNumberCommentaryNoFiniteTest(x) ==
    IF x = kImpossibleValue
    THEN "ERROR: Value was not set by cost function"
    ELSE "OK"

UserSuppliedNumberCommentary(x) ==
    IF ~IsFinite(x)
    THEN "ERROR: Value is not finite"
    ELSE IF x = kImpossibleValue
         THEN "ERROR: Value was not set by cost function"
         ELSE "OK"

\* ------------------------------------------------ IsEvaluationValid
IsEvaluationValidResidualsOnly(block, parameters, cost, residuals, jacobians) ==
    IsArrayValid(NumResiduals(block), residuals)

IsEvaluationValidChecksCost(block, parameters, cost, residuals, jacobians) ==
    /\ IsArrayValid(1, cost)
    /\ IsArrayValid(NumResiduals(block), residuals)
    /\ ~jacobians.null =>
          \A i \in 0..(NumParameterBlocks(block) - 1) :
              IsArrayValid(NumResiduals(block) * Size(block, i),
                           jacobians.blocks[i + 1])

IsEvaluationValid(block, parameters, cost, residuals, jacobians) ==
    IF ~IsArrayValid(NumResiduals(block), residuals)
    THEN FALSE
    ELSE IF ~jacobians.null
         THEN \A i \in 0..(NumParameterBlocks(block) - 1) :
                  IsArrayValid(NumResiduals(block) * Size(block, i),
                               jacobians.blocks[i + 1])
         ELSE TRUE

\* ------------------------------------- EvaluationErrorReportString
(***************************************************************************)
(* Steps (3) to (5) of the report, lines 175-214.  The report is the       *)
(* record of what the code appends: whether each "Problem exists in"       *)
(* header is appended, the arguments each residual line is formatted from, *)
(* and the indices i at which the block loop of step (5) reaches its       *)
(* "Jacobian values for parameter block" line.                             *)
(*                                                                         *)
(* Two loops run "for (i = 0; i < parameter_block_size; ++i)" where no     *)
(* parameter_block_size is in scope: bound stands for that value.  They    *)
(* read block.parameter_blocks()[i] and jacobians[i] with no test of       *)
(* jacobians or of i against NumParameterBlocks, and they validate         *)
(* parameter_block_size * num_residuals cells of residuals, which has      *)
(* num_residuals cells.  Each read outside an object yields the value      *)
(* oracle gives for that i.                                                *)
(***************************************************************************)
ResidualLineFormat == "  r[%02d] = %-15.4e     %s\n"

\* the i for which the line of 182-183 is appended, in loop order
ListedResiduals(num_residuals, residuals) ==
    SelectSeq([i1 \in 1..num_residuals |-> i1 - 1],
              LAMBDA i : \/ ~IsUserSuppliedValueValid(residuals.data[i + 1])
                         \/ num_residuals < kMaxPrintedResiduals)

\* jacobians[i] != NULL, lines 192 and 205
JacobianPtrNotNull(block, jacobians, i, oracle) ==
    IF ~jacobians.null /\ i < NumParameterBlocks(block)
    THEN ~jacobians.blocks[i + 1].null
    ELSE ~oracle[i].null

\* IsArrayValid(parameter_block_size * num_residuals, residuals), 193 and 206
ResidualsValidAtBlockLength(block, residuals, i, oracle) ==
    IF ~IsArrayValid(NumResiduals(block), residuals)
    THEN FALSE
    ELSE IF i < NumParameterBlocks(block) /\ Size(block, i) = 1
         THEN TRUE
         ELSE oracle[i].ok

\* oracle is consulted only for the reads outside an object: elsewhere it
\* is held at one value
OracleIsCanonical(block, residuals, jacobians, bound, oracle) ==
    \A i \in 0..(bound - 1) :
        /\ (~jacobians.null /\ i < NumParameterBlocks(block))
              => oracle[i].null = FALSE
        /\ (\/ ~IsArrayValid(NumResiduals(block), residuals)
            \/ ~JacobianPtrNotNull(block, jacobians, i, oracle)
            \/ IF i < NumParameterBlocks(block)
               THEN Size(block, i) = 1
               ELSE FALSE)
              => oracle[i].ok = FALSE

\* some read of the two loops is outside the object it reads
ReportReadsOutside(block, residuals, jacobians, bound, oracle) ==
    \E i \in 0..(bound - 1) :
        IF jacobians.null \/ i >= NumParameterBlocks(block)
        THEN TRUE
        ELSE /\ JacobianPtrNotNull(block, jacobians, i, oracle)
             /\ IsArrayValid(NumResiduals(block), residuals)
             /\ Size(block, i) > 1

EvaluationErrorReportString(block, parameters, cost, residuals, jacobians, bound, oracle) ==
    LET num_residuals == NumResiduals(block)
        residuals_ok == IsArrayValid(num_residuals, residuals)
        listed == ListedResiduals(num_residuals, residuals)
        BlockOk(i) ==
            /\ JacobianPtrNotNull(block, jacobians, i, oracle)
            /\ ResidualsValidAtBlockLength(block, residuals, i, oracle)
        BlockBad(i) ==
            /\ JacobianPtrNotNull(block, jacobians, i, oracle)
            /\ ~ResidualsValidAtBlockLength(block, residuals, i, oracle)
        jacobians_all_ok == \A i \in 0..(bound - 1) : ~BlockBad(i)
    IN  [sizes |-> block.sizes,
         num_residuals |-> num_residuals,
         residual_section |-> ~residuals_ok,
         residual_lines |->
            IF ~residuals_ok
            THEN [n \in 1..Len(listed) |->
                    [format |-> ResidualLineFormat,
                     args |-> <<UserSuppliedNumberCommentary(
                                    residuals.data[listed[n] + 1])>>]]
            ELSE <<>>,
         jacobian_section |-> ~jacobians_all_ok,
         jacobian_blocks |->
            IF ~jacobians_all_ok
            THEN SelectSeq([i1 \in 1..bound |-> i1 - 1],
                           LAMBDA i : ~BlockOk(i))
            ELSE <<>>]

\* ------------------------------------------------------------ state
VARIABLES
    block,       \* the ResidualBlock: num_residuals and the parameter block sizes
    parameters,  \* double const* const*: one buffer per parameter block
    cost,        \* double*: one cell
    residuals,   \* double*: num_residuals cells
    jacobians,   \* double**: null, or one pointer per parameter block
    pc,          \* where the evaluation of the block stands
    last         \* the last call made on the buffers and what it returned

vars == <<block, parameters, cost, residuals, jacobians, pc, last>>

Filled(n, v) == Ptr([i \in 1..n |-> v])

SizeSeqs ==
    UNION {[1..n -> 1..MaxParameterBlockSize] : n \in 0..MaxParameterBlocks}

RECURSIVE Sum(_)
Sum(s) == IF s = <<>> THEN 0 ELSE s[1] + Sum(Tail(s))

\* the small residual blocks, and two blocks without parameters at the
\* threshold of line 181
Shapes ==
    {b \in [num_residuals : 1..MaxResiduals, sizes : SizeSeqs] :
        b.num_residuals * Sum(b.sizes) <= MaxJacobianCells}
    \cup {[num_residuals |-> r, sizes |-> <<>>] :
            r \in {kMaxPrintedResiduals - 1, kMaxPrintedResiduals}}

JacobianLayouts(b) ==
    IF NumResiduals(b) > MaxResiduals
    THEN {[null |-> TRUE, blocks |-> <<>>]}
    ELSE
    {[null |-> TRUE, blocks |-> <<>>]}
    \cup {[null |-> FALSE,
           blocks |-> [i \in 1..NumParameterBlocks(b) |->
                         IF present[i]
                         THEN Filled(NumResiduals(b) * Size(b, i - 1), "1.0")
                         ELSE NullPtr]] :
            present \in [1..NumParameterBlocks(b) -> BOOLEAN]}

Init ==
    /\ block \in Shapes
    /\ parameters = [i \in 1..NumParameterBlocks(block) |->
                        Filled(Size(block, i - 1), "1.0")]
    /\ cost = Filled(1, "1.0")
    /\ residuals = Filled(NumResiduals(block), "1.0")
    /\ jacobians \in JacobianLayouts(block)
    /\ pc = "idle"
    /\ last = [op |-> "none"]

\* ------------------------------------------- the user's cost function
\* the cells the cost function is asked to write: <<buffer, block, offset>>
Cells ==
    {<<"cost", 0, 1>>}
    \cup {<<"residuals", 0, k>> : k \in 1..NumResiduals(block)}
    \cup IF jacobians.null
         THEN {}
         ELSE UNION {{<<"jacobians", i, o>> :
                        o \in 1..Len(jacobians.blocks[i].data)} :
                     i \in 1..NumParameterBlocks(block)}

RECURSIVE SubsetsUpTo(_, _)
SubsetsUpTo(S, n) ==
    IF n = 0
    THEN {{}}
    ELSE LET smaller == SubsetsUpTo(S, n - 1)
         IN  smaller \cup {s \cup {x} : s \in smaller, x \in S}

BadBudget ==
    IF NumResiduals(block) > MaxResiduals THEN MaxBadLarge ELSE MaxBad

\* what the cost function does at a cell it gets wrong
Faults == {"unwritten"} \cup NonFinite

Written(x, buffer, i, fault) ==
    IF x.null
    THEN x
    ELSE [x EXCEPT !.data =
            [o \in 1..Len(x.data) |->
                IF <<buffer, i, o>> \in DOMAIN fault
                THEN IF fault[<<buffer, i, o>>] = "unwritten"
                     THEN x.data[o]
                     ELSE fault[<<buffer, i, o>>]
                ELSE "1.0"]]

\* ----------------------------------------------------------- actions
Poison ==
    /\ pc \in {"idle", "evaluated"}
    /\ LET r == InvalidateEvaluation(block, cost, residuals, jacobians)
       IN  /\ cost' = r.cost
           /\ residuals' = r.residuals
           /\ jacobians' = r.jacobians
    /\ pc' = "poisoned"
    /\ last' = [op |-> "poison"]
    /\ UNCHANGED <<block, parameters>>

Evaluate ==
    /\ pc = "poisoned"
    /\ \E bad \in SubsetsUpTo(Cells, BadBudget) :
         \E fault \in [bad -> Faults] :
            /\ cost' = Written(cost, "cost", 0, fault)
            /\ residuals' = Written(residuals, "residuals", 0, fault)
            /\ jacobians' =
                 IF jacobians.null
                 THEN jacobians
                 ELSE [jacobians EXCEPT !.blocks =
                         [i \in 1..NumParameterBlocks(block) |->
                            Written(jacobians.blocks[i], "jacobians", i, fault)]]
    /\ pc' = "evaluated"
    /\ last' = [op |-> "evaluate"]
    /\ UNCHANGED <<block, parameters>>

\* The buffers of one evaluation are validated, any number of times, and
\* then rendered at most once, by the report or by the dump: the calls are
\* pure, so what they return does not depend on the calls before them.
NotRendered == last.op \in {"none", "poison", "evaluate", "valid"}

Validate ==
    /\ NotRendered
    /\ last' = [op |-> "valid",
                value |-> IsEvaluationValid(block, parameters, cost,
                                            residuals, jacobians)]
    /\ UNCHANGED <<block, parameters, cost, residuals, jacobians, pc>>

ErrorReport ==
    /\ NotRendered
    /\ \E bound \in 0..MaxParameterBlockSize :
         \E oracle \in [0..(bound - 1) -> [null : BOOLEAN, ok : BOOLEAN]] :
          /\ OracleIsCanonical(block, residuals, jacobians, bound, oracle)
          /\
            \/ last' = [op |-> "report",
                        report |-> EvaluationErrorReportString(
                                      block, parameters, cost, residuals,
                                      jacobians, bound, oracle)]
            \/ /\ ReportReadsOutside(block, residuals, jacobians, bound, oracle)
               /\ last' = [op |-> "abort"]
    /\ UNCHANGED <<block, parameters, cost, residuals, jacobians, pc>>

FullDump ==
    /\ NotRendered
    /\ last' = [op |-> "dump",
                dump |-> EvaluationToString(block, parameters, cost,
                                            residuals, jacobians)]
    /\ UNCHANGED <<block, parameters, cost, residuals, jacobians, pc>>

Next ==
    \/ Poison
    \/ Evaluate
    \/ Validate
    \/ ErrorReport
    \/ FullDump

Spec == Init /\ [][Next]_vars

\* ----------------------------------------------------------- claims
\* the sentinel, NaN or +/-Infinity
Offending(x) == x = kImpossibleValue \/ x \in {"NaN", "Inf", "-Inf"}

ResidualCells == 1..block.num_residuals

\* the parameter blocks, 0-based, whose Jacobian block is present
PresentBlocks ==
    IF jacobians.null
    THEN {}
    ELSE {i \in 0..(Len(block.sizes) - 1) : ~jacobians.blocks[i + 1].null}

BlockCells(i) == 1..(block.num_residuals * block.sizes[i + 1])

ResidualsClean == \A k \in ResidualCells : ~Offending(residuals.data[k])

BlockClean(i) == \A o \in BlockCells(i) : ~Offending(jacobians.blocks[i + 1].data[o])

\* the present Jacobian blocks with an offending cell
FailingBlocks == {i \in PresentBlocks : ~BlockClean(i)}

\* C1: whenever a residual cell, or a cell of a present Jacobian block of a
\* supplied Jacobian array, is the sentinel, NaN or +/-Infinity,
\* IsEvaluationValid returns false.
C1_ZeroFalseNegatives ==
    (last.op = "valid" /\ (~ResidualsClean \/ FailingBlocks # {}))
        => last.value = FALSE

\* C1 witness: the residuals are clean, every Jacobian block is present, one
\* Jacobian cell is NaN, and the validator has returned false.
C1_Witness ==
    /\ last.op = "valid"
    /\ last.value = FALSE
    /\ ResidualsClean
    /\ Len(block.sizes) = 2
    /\ PresentBlocks = {0, 1}
    /\ \E o \in BlockCells(1) : jacobians.blocks[2].data[o] = "NaN"

\* C2: with clean residuals and every present Jacobian block clean,
\* IsEvaluationValid returns true, whichever Jacobian entries are null.
C2_AbsentBlockNeverInvalid ==
    (last.op = "valid" /\ ResidualsClean /\ FailingBlocks = {})
        => last.value = TRUE

\* C3: IsEvaluationValid called on the buffers InvalidateEvaluation has just
\* poisoned, with no write in between, returns false (num_residuals >= 1).
C3_PoisonThenValidate ==
    (pc = "poisoned" /\ last.op = "valid" /\ block.num_residuals >= 1)
        => last.value = FALSE

\* C3 witness: poisoned buffers with no Jacobian array, validated.
C3_Witness ==
    /\ pc = "poisoned"
    /\ last.op = "valid"
    /\ jacobians.null
    /\ residuals.data[1] = kImpossibleValue

\* C4: a call of InvalidateEvaluation leaves the sentinel in the cost cell,
\* in every residual cell and in every cell of every present Jacobian block;
\* null Jacobian entries and a null Jacobian array stay null, the buffers keep
\* their lengths, and the parameters and the block are unchanged.
C4_PoisonWritesAndFrame ==
    [][last'.op = "poison" =>
        /\ cost' = [null |-> FALSE, data |-> <<kImpossibleValue>>]
        /\ residuals'.null = FALSE
        /\ Len(residuals'.data) = block.num_residuals
        /\ \A k \in ResidualCells : residuals'.data[k] = kImpossibleValue
        /\ jacobians'.null = jacobians.null
        /\ Len(jacobians'.blocks) = Len(jacobians.blocks)
        /\ \A i \in 1..Len(jacobians.blocks) :
              /\ jacobians'.blocks[i].null = jacobians.blocks[i].null
              /\ Len(jacobians'.blocks[i].data) = Len(jacobians.blocks[i].data)
              /\ \A o \in 1..Len(jacobians.blocks[i].data) :
                    jacobians'.blocks[i].data[o] = kImpossibleValue
        /\ parameters' = parameters
        /\ block' = block]_vars

\* C4 witness: just poisoned, one Jacobian block present and poisoned, the
\* other absent.
C4_Witness ==
    /\ last.op = "poison"
    /\ Len(block.sizes) = 2
    /\ PresentBlocks = {1}
    /\ jacobians.blocks[1] = [null |-> TRUE, data |-> <<>>]
    /\ \A o \in BlockCells(1) : jacobians.blocks[2].data[o] = kImpossibleValue

\* the Jacobian problem section of a report names these blocks
NamedBlocks(report) ==
    {report.jacobian_blocks[n] : n \in 1..Len(report.jacobian_blocks)}

\* C5: the Jacobian problem section names exactly the parameter blocks whose
\* Jacobian block is present and has an offending cell among its own cells;
\* it is there iff there is such a block, and never when the Jacobian array
\* is null.
C5_JacobianSectionNamesFailingBlocks ==
    last.op = "report" =>
        /\ NamedBlocks(last.report) = FailingBlocks
        /\ last.report.jacobian_section = (FailingBlocks # {})
        /\ jacobians.null => ~last.report.jacobian_section

\* C6: a report on an evaluation IsEvaluationValid rejects has at least one
\* problem section; the residual section is there iff the residuals fail, the
\* Jacobian section iff some present Jacobian block fails.
C6_ReportAgreesWithValidator ==
    (/\ last.op = "report"
     /\ ~IsEvaluationValid(block, parameters, cost, residuals, jacobians))
        => /\ last.report.residual_section \/ last.report.jacobian_section
           /\ last.report.residual_section = ~ResidualsClean
           /\ last.report.jacobian_section = (FailingBlocks # {})

\* the residual indices, 0-based and ascending, a report is to list: all of
\* them below 50 residuals, the offending ones from 50 on
RECURSIVE IndicesToList(_)
IndicesToList(n) ==
    IF n = 0
    THEN <<>>
    ELSE IF block.num_residuals < 50 \/ Offending(residuals.data[n])
         THEN Append(IndicesToList(n - 1), n - 1)
         ELSE IndicesToList(n - 1)

ExpectedTag(x) ==
    CASE x \in {"NaN", "Inf", "-Inf"} -> "ERROR: Value is not finite"
      [] x = kImpossibleValue -> "ERROR: Value was not set by cost function"
      [] OTHER -> "OK"

\* the commentary is the %s argument, the last one of a line
Tag(line) == line.args[Len(line.args)]

C8_ResidualLinesCarryIndexValueTag ==
    (last.op = "report" /\ ~ResidualsClean) =>
        LET listed == IndicesToList(block.num_residuals)
            lines == last.report.residual_lines
        IN  /\ last.report.residual_section
            /\ Len(lines) = Len(listed)
            /\ \A n \in 1..Len(lines) :
                  lines[n].args =
                      <<listed[n],
                        residuals.data[listed[n] + 1],
                        ExpectedTag(residuals.data[listed[n] + 1])>>

\* the text of the Jacobian cell of residual k and scalar j of block i (0-based)
ExpectedCell(i, j, k) ==
    IF jacobians.null \/ jacobians.blocks[i + 1].null
    THEN "Not Computed"
    ELSE LET x == jacobians.blocks[i + 1].data[k * block.sizes[i + 1] + j + 1]
         IN  IF x = kImpossibleValue THEN "Uninitialized" ELSE FormatG(x)

\* C9: the dump has, for every parameter block i, scalar j and residual k,
\* one Jacobian cell, rendered from offset k * size_i + j of block i: 'Not
\* Computed' for a null array or block, 'Uninitialized' for the sentinel, the
\* value otherwise; making the dump changes no buffer.
C9_DumpRendersEveryJacobianCell ==
    /\ [](last.op = "dump" =>
            /\ Len(last.dump.blocks) = Len(block.sizes)
            /\ \A i \in 0..(Len(block.sizes) - 1) :
                  /\ Len(last.dump.blocks[i + 1].rows) = block.sizes[i + 1]
                  /\ \A j \in 0..(block.sizes[i + 1] - 1) :
                        LET cells == last.dump.blocks[i + 1].rows[j + 1].cells
                        IN  /\ Len(cells) = block.num_residuals
                            /\ \A k \in 0..(block.num_residuals - 1) :
                                  cells[k + 1] = ExpectedCell(i, j, k))
    /\ [][last'.op = "dump" =>
            UNCHANGED <<block, parameters, cost, residuals, jacobians>>]_vars

\* C9 witness: the dump of an invalid evaluation of 2 residuals with a block
\* of size 2 whose cell at offset 1 * 2 + 0 is NaN and whose cell at offset
\* 0 * 2 + 1 is unwritten.
C9_Witness ==
    /\ last.op = "dump"
    /\ block.num_residuals = 2
    /\ block.sizes = <<2>>
    /\ PresentBlocks = {0}
    /\ jacobians.blocks[1].data = <<"1.0", kImpossibleValue, "NaN", "1.0">>
    /\ last.dump.blocks[1].rows[1].cells = <<"1", "nan">>
    /\ last.dump.blocks[1].rows[2].cells = <<"Uninitialized", "1">>

\* C10: the verdict of IsEvaluationValid is the one it gives with any other
\* value in the cost cell; a call changes no buffer, and a second call on
\* the same buffers returns what the first returned.
C10_CostNotInVerdict ==
    /\ [](last.op = "valid" =>
            \A c \in Values :
                IsEvaluationValid(block, parameters,
                                  [null |-> FALSE, data |-> <<c>>],
                                  residuals, jacobians) = last.value)
    /\ [][last'.op = "valid" =>
            /\ UNCHANGED <<block, parameters, cost, residuals, jacobians>>
            /\ last.op = "valid" => last'.value = last.value]_vars

\* C10 witness: an evaluation with NaN in the cost cell and nothing else
\* wrong, accepted.
C10_Witness ==
    /\ last.op = "valid"
    /\ last.value = TRUE
    /\ cost.data[1] = "NaN"
    /\ Len(block.sizes) = 2

====
